---- MODULE Spec2Model ----
(***************************************************************************)
(* Model of checks.d/snmp.py (SnmpCheck): the poll cycle `check`, the      *)
(* walk aggregation `check_table`, the two reporters, the tag resolver and *)
(* the submission step.                                                    *)
(*                                                                         *)
(* Conventions.                                                            *)
(*  - A Python string whose characters matter (a dotted OID, a tag) is a   *)
(*    sequence of one-character strings; other strings are single tokens.  *)
(*  - A Python dict is an insertion-ordered sequence of <<key, value>>     *)
(*    pairs.  The iteration order of a dict is a function of its insertion *)
(*    history; the device is free to answer in any order.                  *)
(*  - A dict with optional keys (a metric spec, a metric tag) is a record  *)
(*    with a field `keys` naming the keys that are present.                *)
(*  - A function that can raise returns a record with a field `raised`.    *)
(*  - The code is Python 2: dict.items() is a list, and dict iteration      *)
(*    order does not change between two runs over the same insertions.     *)
(*  - The instance configuration names an ip_address and an authentication *)
(*    method, so get_transport_target and get_auth_data do not raise.      *)
(***************************************************************************)
EXTENDS Integers, Sequences, FiniteSets, TLC

VARIABLES instance, device, trace, prev, stable, raised, call

vars == <<instance, device, trace, prev, stable, raised, call>>

----------------------------------------------------------------------------
(* Strings *)

None == "None"

DigitChars == <<"0", "1", "2", "3", "4", "5", "6", "7", "8", "9">>

\* str(i) for a non-negative integer below 100
Str(i) ==
  IF i < 10 THEN <<DigitChars[i + 1]>>
  ELSE <<DigitChars[(i \div 10) + 1], DigitChars[(i % 10) + 1]>>

RECURSIVE Join(_)
\* ".".join([str(i) for i in oid])
Join(oid) ==
  IF oid = <<>> THEN <<>>
  ELSE IF Len(oid) = 1 THEN Str(oid[1])
  ELSE Str(oid[1]) \o <<".">> \o Join(Tail(oid))

\* s.startswith(p)
startswith(s, p) == Len(p) <= Len(s) /\ SubSeq(s, 1, Len(p)) = p

\* s.endswith(p)
endswith(s, p) == Len(p) <= Len(s) /\ SubSeq(s, Len(s) - Len(p) + 1, Len(s)) = p

\* "{0}:{1}".format(k, v)
FormatTag(k, v) == <<k>> \o <<":">> \o v

----------------------------------------------------------------------------
(* SNMP values: [cls |-> class name, val |-> integer payload] *)

SNMP_COUNTERS == <<"Counter32", "Counter64", "ZeroBasedCounter64">>
SNMP_GAUGES == <<"Gauge32", "Unsigned32", "CounterBasedGauge64">>

Val(c, v) == [cls |-> c, val |-> v]

NoValue == Val("none", 0)

\* value.prettyPrint()
prettyPrint(v) ==
  IF v.cls = "NoSuchInstance" THEN <<"No Such Instance currently exists at this OID">>
  ELSE IF v.cls = "NoSuchObject" THEN <<"No Such Object currently exists at this OID">>
  ELSE Str(v.val)

reply_invalid_one(oid) == oid.cls = "NoSuchObject"

reply_invalid(oid) == oid.cls = "NoSuchInstance" \/ oid.cls = "NoSuchObject"

----------------------------------------------------------------------------
(* Events: what one cycle does to the transport, the metric sink and the   *)
(* log, in order.                                                          *)

Ev(ev, name, value, tags, src, status, msg) ==
  [ev |-> ev, name |-> name, value |-> value, tags |-> tags, src |-> src,
   status |-> status, msg |-> msg]

Warning(what) == Ev("warning", what, 0, <<>>, NoValue, "", <<>>)
Debug(what) == Ev("debug", what, 0, <<>>, NoValue, "", <<>>)
Rate(name, value, tags, src) == Ev("rate", name, value, tags, src, "", <<>>)
Gauge(name, value, tags, src) == Ev("gauge", name, value, tags, src, "", <<>>)
ServiceCheck(status, tags, msg) == Ev("service_check", "snmp.can_check", 0, tags, NoValue, status, msg)
\* the call of the transport's nextCmd and the error indication it answered
Walk(which, indication) == Ev("walk", which, 0, <<>>, NoValue, indication, <<>>)

IsSample(e) == e.ev = "rate" \/ e.ev = "gauge"

RECURSIVE Count(_, _)
Count(s, kind) ==
  IF s = <<>> THEN 0
  ELSE (IF s[1].ev = kind THEN 1 ELSE 0) + Count(Tail(s), kind)

RECURSIVE Samples(_)
\* the (kind, name, value, tags) submissions of a trace, in order
Samples(s) ==
  IF s = <<>> THEN <<>>
  ELSE (IF IsSample(s[1])
        THEN <<[ev |-> s[1].ev, name |-> s[1].name, value |-> s[1].value, tags |-> s[1].tags]>>
        ELSE <<>>) \o Samples(Tail(s))

----------------------------------------------------------------------------
(* Python dicts as insertion-ordered sequences of <<key, value>> *)

HasKey(d, k) == \E i \in 1..Len(d) : d[i][1] = k

Get(d, k) == d[CHOOSE i \in 1..Len(d) : d[i][1] = k][2]

\* d[k] = v
Put(d, k, v) ==
  IF HasKey(d, k)
  THEN [i \in 1..Len(d) |-> IF d[i][1] = k THEN <<k, v>> ELSE d[i]]
  ELSE Append(d, <<k, v>>)

\* defaultdict(dict)[k]
GetDefault(d, k) == IF HasKey(d, k) THEN Get(d, k) ELSE <<>>

----------------------------------------------------------------------------
(* submit_metric *)

InSeq(x, s) == \E i \in 1..Len(s) : s[i] = x

\* self.normalize(name, prefix="snmp")
normalize(name) == <<"snmp", name>>

\* the events of one submit_metric call
submit_metric(name, snmp_value, tags) ==
  IF reply_invalid(snmp_value)
  THEN <<Warning("No such Mib available")>>
  ELSE IF InSeq(snmp_value.cls, SNMP_COUNTERS)
  THEN <<Rate(normalize(name), snmp_value.val, tags, snmp_value)>>
  ELSE IF InSeq(snmp_value.cls, SNMP_GAUGES)
  THEN <<Gauge(normalize(name), snmp_value.val, tags, snmp_value)>>
  ELSE <<Warning("Unsupported metric type")>>

----------------------------------------------------------------------------
(* get_index_tags *)

\* seq[i] with Python's indexing: [ok, v]
PyIndex(s, i) ==
  IF i >= 0 /\ i < Len(s) THEN [ok |-> TRUE, v |-> s[i + 1]]
  ELSE IF i < 0 /\ -i <= Len(s) THEN [ok |-> TRUE, v |-> s[Len(s) + i + 1]]
  ELSE [ok |-> FALSE, v |-> 0]

RECURSIVE IndexTagLoop(_, _)
\* the loop over index_tags: [tags, log]
IndexTagLoop(index, index_tags) ==
  IF index_tags = <<>> THEN [tags |-> <<>>, log |-> <<>>]
  ELSE LET idx_tag == index_tags[1]
           rest == IndexTagLoop(index, Tail(index_tags))
           comp == PyIndex(index, idx_tag[2] - 1)
       IN IF ~comp.ok
          THEN [tags |-> rest.tags,
                log |-> <<Warning("Not enough indexes, skipping this tag")>> \o rest.log]
          ELSE [tags |-> <<FormatTag(idx_tag[1], Str(comp.v))>> \o rest.tags,
                log |-> rest.log]

RECURSIVE ColumnTagLoop(_, _, _)
\* the loop over column_tags: [tags, log]
ColumnTagLoop(index, results, column_tags) ==
  IF column_tags = <<>> THEN [tags |-> <<>>, log |-> <<>>]
  ELSE LET col_tag == column_tags[1]
           rest == ColumnTagLoop(index, results, Tail(column_tags))
           column == GetDefault(results, col_tag[2])
       IN IF ~HasKey(column, index)
          THEN [tags |-> rest.tags,
                log |-> <<Warning("Column not present in the table, skipping this tag")>> \o rest.log]
          ELSE IF reply_invalid(Get(column, index))
          THEN [tags |-> rest.tags,
                log |-> <<Warning("Can't deduct tag from column")>> \o rest.log]
          ELSE [tags |-> <<FormatTag(col_tag[1], prettyPrint(Get(column, index)))>> \o rest.tags,
                log |-> rest.log]

RECURSIVE IndexTagLoopStop(_, _)
IndexTagLoopStop(index, index_tags) ==
  IF index_tags = <<>> THEN [tags |-> <<>>, log |-> <<>>]
  ELSE LET idx_tag == index_tags[1]
           comp == PyIndex(index, idx_tag[2] - 1)
       IN IF ~comp.ok
          THEN [tags |-> <<>>, log |-> <<Warning("Not enough indexes, skipping this tag")>>]
          ELSE LET rest == IndexTagLoopStop(index, Tail(index_tags))
               IN [tags |-> <<FormatTag(idx_tag[1], Str(comp.v))>> \o rest.tags,
                   log |-> rest.log]

get_index_tags_stop(index, results, index_tags, column_tags) ==
  LET it == IndexTagLoopStop(index, index_tags)
      ct == ColumnTagLoop(index, results, column_tags)
  IN [tags |-> it.tags \o ct.tags, log |-> it.log \o ct.log]

\* [tags |-> the returned list, log |-> the warnings]
get_index_tags(index, results, index_tags, column_tags) ==
  LET it == IndexTagLoop(index, index_tags)
      ct == ColumnTagLoop(index, results, column_tags)
  IN [tags |-> it.tags \o ct.tags, log |-> it.log \o ct.log]

----------------------------------------------------------------------------
(* Results of a function that can raise *)

Absent == <<>>

\* The element of a one-element set.  The({F(v) : v \in {e}}) is F applied
\* to the value of e, with e evaluated once, as a Python statement evaluates
\* its right-hand side once before the name it is assigned to is used.
The(S) == CHOOSE y \in S : TRUE

Outcome(t, r, e) == [trace |-> t, raised |-> r, exc |-> e]

----------------------------------------------------------------------------
(* check_table *)

RECURSIVE Flatten(_)
\* for table_row in var_binds: for result_oid, value in table_row
Flatten(var_binds) ==
  IF var_binds = <<>> THEN <<>> ELSE var_binds[1] \o Flatten(Tail(var_binds))

RECURSIVE Aggregate(_, _, _)
\* the stores into results, one per returned variable binding
Aggregate(results, binds, lookup_names) ==
  IF binds = <<>> THEN results
  ELSE LET b == binds[1]
           next == IF lookup_names
                   THEN Put(results, b.metric, Put(GetDefault(results, b.metric), b.indexes, b.value))
                   ELSE Put(results, Join(b.oid), b.value)
       IN Aggregate(next, Tail(binds), lookup_names)

\* error_status.prettyPrint()
StatusText(error_status) ==
  IF error_status = 2 THEN "noSuchName" ELSE IF error_status = 5 THEN "genErr" ELSE "noError"

\* "{0} for instance {1}".format(what, instance["ip_address"])
ForInstance(what, inst) == <<what, " for instance ", inst.ip_address>>

check_table_no_raise(inst, oids, lookup_names, reply) ==
  LET walk == <<Walk(IF lookup_names THEN "table" ELSE "raw", reply.error_indication)>>
  IN IF reply.error_indication # None
     THEN [results |-> <<>>, sce |-> ForInstance(reply.error_indication, inst),
           trace |-> walk \o <<Warning("error indication")>>,
           raised |-> FALSE, exc |-> <<>>]
     ELSE IF reply.error_status # 0
     THEN [results |-> <<>>, sce |-> ForInstance(StatusText(reply.error_status), inst),
           trace |-> walk \o <<Warning("error status")>>, raised |-> FALSE, exc |-> <<>>]
     ELSE [results |-> Aggregate(<<>>, Flatten(reply.var_binds), lookup_names),
           sce |-> inst.service_check_error, trace |-> walk, raised |-> FALSE, exc |-> <<>>]

\* `reply` is what the transport's nextCmd answers:
\* [error_indication, error_status, var_binds].
\* Returns [results, sce (instance["service_check_error"] afterwards), trace, raised, exc].
check_table(inst, oids, lookup_names, reply) ==
  LET walk == <<Walk(IF lookup_names THEN "table" ELSE "raw", reply.error_indication)>>
  IN IF reply.error_indication # None
     THEN [results |-> <<>>, sce |-> ForInstance(reply.error_indication, inst),
           trace |-> walk, raised |-> TRUE, exc |-> ForInstance(reply.error_indication, inst)]
     ELSE IF reply.error_status # 0
     THEN [results |-> <<>>, sce |-> ForInstance(StatusText(reply.error_status), inst),
           trace |-> walk \o <<Warning("error status")>>, raised |-> FALSE, exc |-> <<>>]
     ELSE [results |-> Aggregate(<<>>, Flatten(reply.var_binds), lookup_names),
           sce |-> inst.service_check_error, trace |-> walk, raised |-> FALSE, exc |-> <<>>]

----------------------------------------------------------------------------
(* report_raw_metrics *)

\* instance.get("tags", []) + ["snmp_device:" + instance.get('ip_address')]
BaseTags(inst) == inst.tags \o <<FormatTag("snmp_device", <<inst.ip_address>>)>>

RECURSIVE FirstMatch(_, _, _)
\* for oid in results: if oid.startswith(queried_oid): ... break  (0: the else branch)
FirstMatch(results, queried_oid, i) ==
  IF i > Len(results) THEN 0
  ELSE IF startswith(results[i][1], queried_oid) THEN i
  ELSE FirstMatch(results, queried_oid, i + 1)

RawMetric(metric, results, tags) ==
  IF "OID" \in metric.keys
  THEN LET i == FirstMatch(results, metric.OID, 1)
           name == IF "name" \in metric.keys THEN metric.name ELSE "unnamed_metric"
       IN IF i = 0 THEN <<Warning("No matching results found for oid")>>
          ELSE submit_metric(name, results[i][2], tags)
  ELSE <<>>

RECURSIVE RawMetricsLoop(_, _, _)
RawMetricsLoop(metrics, results, tags) ==
  IF metrics = <<>> THEN <<>>
  ELSE RawMetric(metrics[1], results, tags) \o RawMetricsLoop(Tail(metrics), results, tags)

report_raw_metrics_alias(inst, results) ==
  [trace |-> RawMetricsLoop(inst.metrics, results, BaseTags(inst)),
   raised |-> FALSE, exc |-> <<>>, tags |-> BaseTags(inst)]

\* [trace, raised, exc, tags (instance["tags"] afterwards)]
report_raw_metrics(inst, results) ==
  [trace |-> RawMetricsLoop(inst.metrics, results, BaseTags(inst)),
   raised |-> FALSE, exc |-> <<>>, tags |-> inst.tags]

----------------------------------------------------------------------------
(* report_table_metrics *)

RECURSIVE SplitTags(_)
\* the loop over metric.get('metric_tags', []): [index_based_tags, column_based_tags, log]
SplitTags(metric_tags) ==
  IF metric_tags = <<>> THEN [index_based_tags |-> <<>>, column_based_tags |-> <<>>, log |-> <<>>]
  ELSE LET metric_tag == metric_tags[1]
           rest == SplitTags(Tail(metric_tags))
       IN IF "index" \in metric_tag.keys
          THEN [rest EXCEPT !.index_based_tags = <<<<metric_tag.tag, metric_tag.index>>>> \o @]
          ELSE IF "column" \in metric_tag.keys
          THEN [rest EXCEPT !.column_based_tags = <<<<metric_tag.tag, metric_tag.column>>>> \o @]
          ELSE [rest EXCEPT !.log = <<Warning("No indication on what value to use for this tag")>> \o @]

RECURSIVE RowsLoop(_, _, _, _, _)
\* for index, val in results[value_to_collect].items()
RowsLoop(value_to_collect, rows, results, tags, split) ==
  IF rows = <<>> THEN <<>>
  ELSE LET index == rows[1][1]
           val == rows[1][2]
           t == get_index_tags(index, results, split.index_based_tags, split.column_based_tags)
       IN t.log \o submit_metric(value_to_collect, val, tags \o t.tags)
          \o RowsLoop(value_to_collect, Tail(rows), results, tags, split)

RECURSIVE SymbolsLoop(_, _, _, _)
\* for value_to_collect in metric.get("symbols", [])
SymbolsLoop(symbols, results, tags, split) ==
  IF symbols = <<>> THEN <<>>
  ELSE RowsLoop(symbols[1], GetDefault(results, symbols[1]), results, tags, split)
       \o SymbolsLoop(Tail(symbols), results, tags, split)

\* one iteration of the loop over the metrics
TableMetric(metric, results, tags) ==
  IF "table" \in metric.keys
  THEN LET split == SplitTags(IF "metric_tags" \in metric.keys THEN metric.metric_tags ELSE <<>>)
           symbols == IF "symbols" \in metric.keys THEN metric.symbols ELSE <<>>
       IN Outcome(split.log \o SymbolsLoop(symbols, results, tags, split), FALSE, <<>>)
  ELSE IF "symbol" \in metric.keys
  THEN LET result == GetDefault(results, metric.symbol)
       IN IF Len(result) > 1
          \* self.log(...): the logger object is called, not one of its methods
          THEN Outcome(<<>>, TRUE, <<"TypeError: 'Logger' object is not callable">>)
          ELSE IF Len(result) = 0
          \* result[0][1] on an empty list
          THEN Outcome(<<>>, TRUE, <<"IndexError: list index out of range">>)
          ELSE Outcome(submit_metric(metric.symbol, result[1][2], tags), FALSE, <<>>)
  ELSE IF "OID" \in metric.keys
  THEN Outcome(<<>>, FALSE, <<>>)
  ELSE Outcome(<<>>, TRUE, <<"Unsupported metric in config file">>)

RECURSIVE TableMetricsLoop(_, _, _)
TableMetricsLoop(metrics, results, tags) ==
  IF metrics = <<>> THEN Outcome(<<>>, FALSE, <<>>)
  ELSE LET one == TableMetric(metrics[1], results, tags)
       IN IF one.raised THEN one
          ELSE [TableMetricsLoop(Tail(metrics), results, tags) EXCEPT !.trace = one.trace \o @]

\* [trace, raised, exc, tags (instance["tags"] afterwards)]
report_table_metrics(inst, results) ==
  LET r == TableMetricsLoop(inst.metrics, results, BaseTags(inst))
  IN [trace |-> r.trace, raised |-> r.raised, exc |-> r.exc, tags |-> inst.tags]

----------------------------------------------------------------------------
(* check *)

RECURSIVE Plan(_)
\* the loop that sorts the metrics into table_oids and raw_oids:
\* [table_oids, raw_oids, trace, raised]
Plan(metrics) ==
  IF metrics = <<>>
  THEN [table_oids |-> <<>>, raw_oids |-> <<>>, trace |-> <<>>, raised |-> FALSE]
  ELSE LET metric == metrics[1]
           rest == Plan(Tail(metrics))
       IN IF "MIB" \in metric.keys
          THEN IF "table" \in metric.keys \/ "symbol" \in metric.keys
               THEN [rest EXCEPT !.table_oids =
                       <<IF "table" \in metric.keys THEN metric.table ELSE metric.symbol>> \o @]
               ELSE [rest EXCEPT !.trace = <<Warning("Can't generate MIB object for variable")>> \o @]
          ELSE IF "OID" \in metric.keys
          THEN IF endswith(metric.OID, <<".", "0">>)
               THEN [rest EXCEPT !.raw_oids = <<SubSeq(metric.OID, 1, Len(metric.OID) - 2)>> \o @,
                                 !.trace = <<Debug("Removing the trailing .0 in the oid")>> \o @]
               ELSE [rest EXCEPT !.raw_oids = <<metric.OID>> \o @]
          \* raise Exception('Unsupported metric in config file'): the loop ends here
          ELSE [table_oids |-> <<>>, raw_oids |-> <<>>, trace |-> <<>>, raised |-> TRUE]

\* the statement after a walk `w` that did not raise: report_table_metrics
\* or report_raw_metrics on its results
Report(inst, results, lookup_names) ==
  IF lookup_names THEN report_table_metrics(inst, results)
  ELSE report_raw_metrics(inst, results)

\* what follows a walk `w`: the instance holds the message the walk stored,
\* and the reporter runs unless the walk raised.  [inst, trace, raised, exc]
AfterWalk(inst, w, lookup_names) ==
  LET inst1 == [inst EXCEPT !.service_check_error = w.sce]
      t1 == <<Debug("Querying device")>> \o w.trace
  IN IF w.raised THEN [inst |-> inst1, trace |-> t1, raised |-> TRUE, exc |-> w.exc]
     ELSE The({ [inst |-> [inst1 EXCEPT !.tags = r.tags], trace |-> t1 \o r.trace,
                 raised |-> r.raised, exc |-> r.exc]
                : r \in {Report(inst1, w.results, lookup_names)} })

\* if table_oids: check_table(..., True), then report_table_metrics
QueryTable(inst, dev, table_oids) ==
  IF table_oids = <<>> THEN [inst |-> inst, trace |-> <<>>, raised |-> FALSE, exc |-> <<>>]
  ELSE The({AfterWalk(inst, w, TRUE) : w \in {check_table(inst, table_oids, TRUE, dev.table)}})

\* if raw_oids: check_table(..., False), then report_raw_metrics
QueryRaw(inst, dev, raw_oids) ==
  IF raw_oids = <<>> THEN [inst |-> inst, trace |-> <<>>, raised |-> FALSE, exc |-> <<>>]
  ELSE The({AfterWalk(inst, w, FALSE) : w \in {check_table(inst, raw_oids, FALSE, dev.raw)}})

\* the finally block
Finally(inst) ==
  LET tags == <<FormatTag("snmp_device", <<inst.ip_address>>)>>
  IN IF inst.service_check_error # Absent
     THEN <<ServiceCheck("CRITICAL", tags, inst.service_check_error)>>
     ELSE <<ServiceCheck("OK", tags, <<>>)>>

\* the except and finally clauses, after the body of the try statement
\* ended as `r` ([inst, trace, raised, exc])
ExceptFinally(r) ==
  LET inst2 == IF r.raised /\ r.inst.service_check_error = Absent
               THEN [r.inst EXCEPT !.service_check_error = <<"Fail to collect metrics: ">> \o r.exc]
               ELSE r.inst
  IN [instance |-> inst2, trace |-> r.trace \o Finally(inst2), raised |-> r.raised]

\* the raw query of the try body, after the table query ended as `t`
ThenRaw(t, dev, raw_oids) ==
  IF t.raised THEN t
  ELSE The({[r EXCEPT !.trace = t.trace \o @] : r \in {QueryRaw(t.inst, dev, raw_oids)}})

\* the try / except / finally statement
TryQueries(inst, dev, p) ==
  The({ExceptFinally(ThenRaw(t, dev, p.raw_oids)) : t \in {QueryTable(inst, dev, p.table_oids)}})

\* after the planning loop ended as `p`
AfterPlan(inst, dev, p) ==
  IF p.raised
  THEN [instance |-> inst, trace |-> p.trace, raised |-> TRUE]
  ELSE The({[q EXCEPT !.trace = p.trace \o @] : q \in {TryQueries(inst, dev, p)}})

\* one poll cycle: [instance (afterwards), trace, raised]
check(inst, dev) == The({AfterPlan(inst, dev, p) : p \in {Plan(inst.metrics)}})

----------------------------------------------------------------------------
(* Configurations and device snapshots *)

MaxMetrics == 2

Metric(keys, table, symbol, symbols, metric_tags, OID, name) ==
  [keys |-> keys, table |-> table, symbol |-> symbol, symbols |-> symbols,
   metric_tags |-> metric_tags, OID |-> OID, name |-> name]

IndexTag(tag, position) == [keys |-> {"tag", "index"}, tag |-> tag, index |-> position, column |-> ""]
ColumnTag(tag, column) == [keys |-> {"tag", "column"}, tag |-> tag, index |-> 0, column |-> column]
BareTag(tag) == [keys |-> {"tag"}, tag |-> tag, index |-> 0, column |-> ""]

TableSpec(table, symbols, metric_tags) ==
  Metric({"MIB", "table", "symbols", "metric_tags"}, table, "", symbols, metric_tags, <<>>, "")
SymbolSpec(symbol) == Metric({"MIB", "symbol"}, "", symbol, <<>>, <<>>, <<>>, "")
RawOidSpec(oid, name) == Metric({"OID", "name"}, "", "", <<>>, <<>>, Join(oid), name)
UnnamedOidSpec(oid) == Metric({"OID"}, "", "", <<>>, <<>>, Join(oid), "")
MibOnlySpec == Metric({"MIB"}, "", "", <<>>, <<>>, <<>>, "")
UnknownSpec == Metric({}, "", "", <<>>, <<>>, <<>>, "")

MetricSpecs ==
  { TableSpec("ifTable", <<"ifInOctets">>,
              <<IndexTag("if", 1), ColumnTag("type", "ifType"), BareTag("note"),
                IndexTag("sub", 2)>>),
    SymbolSpec("sysUpTime"),
    RawOidSpec(<<1, 1>>, "m"),
    UnnamedOidSpec(<<1, 1, 0>>),
    MibOnlySpec,
    UnknownSpec }

SeqsUpTo(S, n) == UNION {[1..k -> S] : k \in 0..n}

Instances ==
  { [metrics |-> m, tags |-> <<<<"env", ":", "lab">>>>, ip_address |-> "10.0.0.1",
     service_check_error |-> Absent] : m \in SeqsUpTo(MetricSpecs, MaxMetrics) }

B(metric, indexes, value) == [metric |-> metric, indexes |-> indexes, value |-> value]
R(oid, value) == [oid |-> oid, value |-> value]

TableVarBinds ==
  { <<>>,
    << <<B("ifInOctets", <<1>>, Val("Counter32", 5)), B("ifType", <<1>>, Val("Integer", 6)),
         B("sysUpTime", <<0>>, Val("Gauge32", 7))>> >>,
    << <<B("ifInOctets", <<1>>, Val("Counter64", 5)), B("ifType", <<1>>, Val("NoSuchInstance", 0))>>,
       <<B("ifInOctets", <<2, 3>>, Val("NoSuchObject", 0)), B("ifType", <<2, 3>>, Val("Integer", 6))>> >>,
    << <<B("sysUpTime", <<0>>, Val("Gauge32", 7)), B("ifInOctets", <<1>>, Val("Integer", 4))>>,
       <<B("sysUpTime", <<1>>, Val("Gauge32", 8)), B("ifInOctets", <<2>>, Val("Unsigned32", 9))>> >>,
    << <<B("sysUpTime", <<0>>, Val("NoSuchInstance", 0))>> >> }

RawVarBinds ==
  { <<>>,
    << <<R(<<1, 1, 0>>, Val("Gauge32", 7))>> >>,
    << <<R(<<1, 10, 1>>, Val("Counter32", 5))>>, <<R(<<1, 1, 0>>, Val("Gauge32", 7))>> >>,
    << <<R(<<1, 1, 0>>, Val("NoSuchObject", 0)), R(<<1, 1, 2>>, Val("Integer", 4))>> >> }

Reply(error_indication, error_status, var_binds) ==
  [error_indication |-> error_indication, error_status |-> error_status, var_binds |-> var_binds]

Replies(VarBinds) ==
  {Reply("No SNMP response received before timeout", 0, <<>>)}
    \cup {Reply(None, s, v) : s \in {0, 2}, v \in VarBinds}

TableReplies == Replies(TableVarBinds)
RawReplies == Replies(RawVarBinds)

NoCall == [fn |-> "none"]

----------------------------------------------------------------------------
(* The poll cycles of one instance.  `trace` holds the events of the last   *)
(* cycle and `prev` the samples of the cycle before it, both counted since *)
(* the device's answers last changed (`stable` cycles ago, at most 2).     *)

Init ==
  /\ instance \in Instances
  /\ device \in [table : TableReplies, raw : RawReplies]
  /\ trace = <<>>
  /\ prev = <<>>
  /\ stable = 0
  /\ raised = FALSE
  /\ call = NoCall

\* the collector runs check(instance)
Check ==
  \E c \in {check(instance, device)} :
    /\ instance' = c.instance
    /\ trace' = c.trace
    /\ raised' = c.raised
    /\ prev' = IF stable = 0 THEN <<>> ELSE Samples(trace)
    /\ stable' = IF stable = 0 THEN 1 ELSE 2
    /\ UNCHANGED <<device, call>>

\* the device's answer to the table walk changes
TableChange ==
  \E r \in TableReplies :
    /\ r # device.table
    /\ device' = [device EXCEPT !.table = r]
    /\ trace' = <<>> /\ prev' = <<>> /\ stable' = 0 /\ raised' = FALSE
    /\ UNCHANGED <<instance, call>>

\* the device's answer to the raw walk changes
RawChange ==
  \E r \in RawReplies :
    /\ r # device.raw
    /\ device' = [device EXCEPT !.raw = r]
    /\ trace' = <<>> /\ prev' = <<>> /\ stable' = 0 /\ raised' = FALSE
    /\ UNCHANGED <<instance, call>>

Next == Check \/ TableChange \/ RawChange

Spec == Init /\ [][Next]_vars

----------------------------------------------------------------------------
(* The functions of the check applied on their own to bounded inputs.      *)
(* `call` holds the arguments, and after the call the result.              *)

MaxTags == 2
MaxBinds == 2

DefaultInstance ==
  [metrics |-> <<>>, tags |-> <<<<"env", ":", "lab">>>>, ip_address |-> "10.0.0.1",
   service_check_error |-> Absent]

Idle ==
  /\ instance = DefaultInstance
  /\ device = [table |-> Reply(None, 0, <<>>), raw |-> Reply(None, 0, <<>>)]
  /\ trace = <<>>
  /\ prev = <<>>
  /\ stable = 0
  /\ raised = FALSE

Return(out) ==
  /\ ~call.done
  /\ call' = [call EXCEPT !.done = TRUE, !.out = out]
  /\ UNCHANGED <<instance, device, trace, prev, stable, raised>>

(* get_index_tags *)

RowIndexes == {<<>>, <<1>>, <<2, 3>>, <<1, 10, 4>>}

ColumnRows ==
  { <<>>,
    << <<<<1>>, Val("Integer", 6)>> >>,
    << <<<<1>>, Val("NoSuchInstance", 0)>>, <<<<2, 3>>, Val("Gauge32", 12)>> >>,
    << <<<<2, 3>>, Val("NoSuchObject", 0)>>, <<<<1, 10, 4>>, Val("Integer", 0)>> >> }

TagResults ==
  {<<>>}
    \cup {<< <<"ifType", a>> >> : a \in ColumnRows}
    \cup {<< <<"ifAlias", b>>, <<"ifType", a>> >> : a \in ColumnRows, b \in ColumnRows}

IndexTagSpecs == {<<"if", 1>>, <<"sub", 2>>, <<"third", 3>>}
ColumnTagSpecs == {<<"type", "ifType">>, <<"alias", "ifAlias">>}

InitTags ==
  /\ Idle
  /\ call \in [fn : {"get_index_tags"}, index : RowIndexes, results : TagResults,
               index_tags : SeqsUpTo(IndexTagSpecs, MaxTags),
               column_tags : SeqsUpTo(ColumnTagSpecs, MaxTags),
               done : {FALSE}, out : {[tags |-> <<>>, log |-> <<>>]}]

ResolveTags ==
  Return(get_index_tags(call.index, call.results, call.index_tags, call.column_tags))

SpecTags == InitTags /\ [][ResolveTags]_vars

(* check_table *)

WalkReplies(VarBinds) ==
  {Reply(i, s, v) : i \in {None, "No SNMP response received before timeout"},
                    s \in {0, 2, 5}, v \in VarBinds}

NoWalk == [results |-> <<>>, sce |-> Absent, trace |-> <<>>, raised |-> FALSE, exc |-> <<>>]

InitWalk ==
  /\ Idle
  /\ call \in [fn : {"check_table"}, lookup_names : {TRUE}, reply : WalkReplies(TableVarBinds),
               sce : {Absent, <<"earlier">>}, done : {FALSE}, out : {NoWalk}]
       \cup [fn : {"check_table"}, lookup_names : {FALSE}, reply : WalkReplies(RawVarBinds),
             sce : {Absent, <<"earlier">>}, done : {FALSE}, out : {NoWalk}]

WalkTable ==
  Return(check_table([DefaultInstance EXCEPT !.service_check_error = call.sce],
                     <<"root">>, call.lookup_names, call.reply))

SpecWalk == InitWalk /\ [][WalkTable]_vars

(* report_table_metrics *)

TableResults == {Aggregate(<<>>, Flatten(v), TRUE) : v \in TableVarBinds}

NoReport == [trace |-> <<>>, raised |-> FALSE, exc |-> <<>>, tags |-> <<>>]

InitReportTable ==
  /\ Idle
  /\ call \in [fn : {"report_table_metrics"}, metrics : SeqsUpTo(MetricSpecs, MaxMetrics),
               results : TableResults, done : {FALSE}, out : {NoReport}]

ReportTable ==
  Return(report_table_metrics([DefaultInstance EXCEPT !.metrics = call.metrics], call.results))

SpecReportTable == InitReportTable /\ [][ReportTable]_vars

(* report_raw_metrics *)

RawSpecs ==
  { RawOidSpec(<<1, 1>>, "a"), RawOidSpec(<<1, 10>>, "b"),
    UnnamedOidSpec(<<1, 1, 0>>), RawOidSpec(<<1, 2>>, "c") }

RawBinds ==
  { R(<<1, 1, 0>>, Val("Gauge32", 7)), R(<<1, 10, 1>>, Val("Counter32", 5)),
    R(<<1, 1, 2, 1>>, Val("Unsigned32", 9)), R(<<1, 1, 0>>, Val("NoSuchInstance", 0)),
    R(<<1, 2>>, Val("Counter64", 3)) }

\* the roots the raw walk is started from: Plan's raw_oids
RawRoots(metrics) == Plan(metrics).raw_oids

\* the walk returns rows only while they fall under a root it was started from
UnderSomeRoot(metrics, bind) ==
  \E k \in DOMAIN RawRoots(metrics) :
    \E n \in 0..Len(bind.oid) : Join(SubSeq(bind.oid, 1, n)) = RawRoots(metrics)[k]

InitReportRaw ==
  /\ Idle
  /\ call \in [fn : {"report_raw_metrics"}, metrics : SeqsUpTo(RawSpecs, MaxMetrics),
               binds : SeqsUpTo(RawBinds, MaxBinds), done : {FALSE}, out : {NoReport}]
  /\ \A j \in DOMAIN call.binds : UnderSomeRoot(call.metrics, call.binds[j])

ReportRaw ==
  Return(report_raw_metrics([DefaultInstance EXCEPT !.metrics = call.metrics],
                            Aggregate(<<>>, call.binds, FALSE)))

SpecReportRaw == InitReportRaw /\ [][ReportRaw]_vars

----------------------------------------------------------------------------
(* Properties of the poll cycle (Spec).  `trace` is the last cycle since   *)
(* the device last changed; it is a cycle's trace when stable >= 1.        *)

HasFatalWalk(t) == \E i \in DOMAIN t : t[i].ev = "walk" /\ t[i].status # None

WalkDone(t, which) == \E i \in DOMAIN t : t[i].ev = "walk" /\ t[i].name = which

PlansTable(metrics) ==
  \E k \in DOMAIN metrics :
    "MIB" \in metrics[k].keys /\ ("table" \in metrics[k].keys \/ "symbol" \in metrics[k].keys)

PlansRaw(metrics) ==
  \E k \in DOMAIN metrics : "MIB" \notin metrics[k].keys /\ "OID" \in metrics[k].keys

InvalidClasses == {"NoSuchInstance", "NoSuchObject"}

InvalidRenderings == {prettyPrint(Val(c, 0)) : c \in InvalidClasses}

\* the value part of a "key:value" tag
TagValue(tag) == SubSeq(tag, 3, Len(tag))

\* C1: every poll cycle emits exactly one service-health signal, on every
\* exit path (planning rejects a spec, no query, fatal walk, reporting
\* raises, success).
C1_OneSignalPerCycle == stable >= 1 => Count(trace, "service_check") = 1

\* C2: the status of a cycle's service-health signal depends only on that
\* cycle: CRITICAL exactly when a fatal error occurred in it (a walk answered
\* an error indication or an exception escaped reporting), OK otherwise.
C2_StatusOfThisCycle ==
  stable >= 1 =>
    \A i \in DOMAIN trace :
      trace[i].ev = "service_check" => (trace[i].status = "CRITICAL" <=> raised)

\* C3: only a transport error aborts the remaining steps of a cycle: a cycle
\* in which no walk answered an error indication does not end by an
\* exception, and it walks every query set the configuration asks for.
C3_OnlyTransportAborts ==
  (stable >= 1 /\ ~HasFatalWalk(trace)) =>
    /\ ~raised
    /\ PlansTable(instance.metrics) => WalkDone(trace, "table")
    /\ PlansRaw(instance.metrics) => WalkDone(trace, "raw")

\* C4: a cycle in which a walk answers a fatal error indication emits exactly
\* one service-health signal, it is CRITICAL, and no rate or gauge sample is
\* submitted after the failing walk.
C4_FatalWalk ==
  stable >= 1 =>
    \A i \in DOMAIN trace :
      (trace[i].ev = "walk" /\ trace[i].status # None) =>
        /\ Count(trace, "service_check") = 1
        /\ \A j \in DOMAIN trace : trace[j].ev = "service_check" => trace[j].status = "CRITICAL"
        /\ \A j \in DOMAIN trace : j > i => ~IsSample(trace[j])

\* a cycle whose raw walk failed after the table metrics had been submitted
C4_Witness ==
  /\ stable >= 1
  /\ \E i, j \in DOMAIN trace :
       /\ j < i /\ IsSample(trace[j])
       /\ trace[i].ev = "walk" /\ trace[i].name = "raw" /\ trace[i].status # None

\* C6: no rate or gauge sample carries a value that came from an invalid
\* reply (noSuchInstance / noSuchObject), and no tag of a sample is built
\* from an invalid-reply column value.
C6_InvalidNeverSubmitted ==
  stable >= 1 =>
    \A i \in DOMAIN trace :
      IsSample(trace[i]) =>
        /\ trace[i].src.cls \notin InvalidClasses
        /\ \A k \in DOMAIN trace[i].tags : TagValue(trace[i].tags[k]) \notin InvalidRenderings

\* a cycle that dropped an invalid value and an invalid tag column, and
\* still submitted a sample
C6_Witness ==
  /\ stable >= 1
  /\ \E i, j, k \in DOMAIN trace :
       /\ trace[i].ev = "warning" /\ trace[i].name = "No such Mib available"
       /\ trace[j].ev = "warning" /\ trace[j].name = "Can't deduct tag from column"
       /\ IsSample(trace[k])

\* C9: two consecutive cycles against an unchanged device snapshot submit
\* identical sequences of (name, value, tags) samples.
C9_Idempotent == stable = 2 => Samples(trace) = prev

\* a second cycle on the same snapshot, after a first one that submitted
\* samples and left a service_check_error behind in the instance
C9_Witness ==
  stable = 2 /\ Len(prev) >= 2 /\ instance.service_check_error # Absent

----------------------------------------------------------------------------
(* Properties of report_table_metrics (SpecReportTable) *)

SymbolFirst ==
  /\ call.done
  /\ Len(call.metrics) >= 1
  /\ "symbol" \in call.metrics[1].keys /\ "table" \notin call.metrics[1].keys
  /\ \A k \in DOMAIN call.metrics : k > 1 => call.metrics[k] # call.metrics[1]

SymbolRows == GetDefault(call.results, call.metrics[1].symbol)

RECURSIVE Named(_, _)
\* the samples of a trace submitted under a name
Named(t, name) ==
  IF t = <<>> THEN <<>>
  ELSE (IF IsSample(t[1]) /\ t[1].name = <<"snmp", name>> THEN <<t[1]>> ELSE <<>>)
       \o Named(Tail(t), name)

SymbolSamples == Named(call.out.trace, call.metrics[1].symbol)

\* C5: for a scalar symbol, two or more rows submit nothing and log a
\* warning, zero rows submit nothing, and exactly one row holding a
\* Counter- or Gauge-typed value submits exactly one sample with its value.
C5_SymbolRows ==
  SymbolFirst =>
    /\ Len(SymbolRows) >= 2 =>
         /\ SymbolSamples = <<>>
         /\ \E i \in DOMAIN call.out.trace : call.out.trace[i].ev = "warning"
    /\ Len(SymbolRows) = 0 => SymbolSamples = <<>>
    /\ (Len(SymbolRows) = 1 /\ (InSeq(SymbolRows[1][2].cls, SNMP_COUNTERS)
                                  \/ InSeq(SymbolRows[1][2].cls, SNMP_GAUGES))) =>
         /\ Len(SymbolSamples) = 1
         /\ SymbolSamples[1].value = SymbolRows[1][2].val

----------------------------------------------------------------------------
(* Properties of check_table (SpecWalk) *)

RowsPresent ==
  \A b \in {Flatten(call.reply.var_binds)[i] : i \in DOMAIN Flatten(call.reply.var_binds)} :
    IF call.lookup_names
    THEN /\ HasKey(call.out.results, b.metric)
         /\ HasKey(Get(call.out.results, b.metric), b.indexes)
         /\ \E c \in {Flatten(call.reply.var_binds)[i] : i \in DOMAIN Flatten(call.reply.var_binds)} :
              c.metric = b.metric /\ c.indexes = b.indexes
                /\ Get(Get(call.out.results, b.metric), b.indexes) = c.value
    ELSE HasKey(call.out.results, Join(b.oid))

\* C7: when the transport answers no error indication but an error status
\* together with some rows, the walk logs a warning, does not raise, and
\* returns a ResultSet holding every returned row.
C7_PartialData ==
  (/\ call.done
   /\ call.reply.error_indication = None
   /\ call.reply.error_status # 0
   /\ call.reply.var_binds # <<>>) =>
    /\ ~call.out.raised
    /\ \E i \in DOMAIN call.out.trace : call.out.trace[i].ev = "warning"
    /\ RowsPresent

----------------------------------------------------------------------------
(* Properties of get_index_tags (SpecTags) *)

ValidAt(results, column, index) ==
  \E i \in DOMAIN results :
    /\ results[i][1] = column
    /\ \E j \in DOMAIN results[i][2] :
         results[i][2][j][1] = index /\ results[i][2][j][2].cls \notin InvalidClasses

ValueAt(results, column, index) ==
  LET rows == (CHOOSE e \in {results[i] : i \in DOMAIN results} : e[1] = column)[2]
  IN (CHOOSE r \in {rows[j] : j \in DOMAIN rows} : r[1] = index)[2]

RECURSIVE ExpectedIndexTags(_, _)
ExpectedIndexTags(index, index_tags) ==
  IF index_tags = <<>> THEN <<>>
  ELSE (IF index_tags[1][2] <= Len(index)
        THEN <<<<index_tags[1][1], ":">> \o Str(index[index_tags[1][2]])>>
        ELSE <<>>) \o ExpectedIndexTags(index, Tail(index_tags))

RECURSIVE ExpectedColumnTags(_, _, _)
ExpectedColumnTags(index, results, column_tags) ==
  IF column_tags = <<>> THEN <<>>
  ELSE (IF ValidAt(results, column_tags[1][2], index)
        THEN <<<<column_tags[1][1], ":">> \o Str(ValueAt(results, column_tags[1][2], index).val)>>
        ELSE <<>>) \o ExpectedColumnTags(index, results, Tail(column_tags))

\* C8: tag resolution never fails and returns "key:value" for exactly the
\* IndexTags with p <= len(index) (value: the rendering of index[p-1]) and
\* exactly the ColumnTags whose column holds a valid value at that index;
\* a skipped tag removes or alters no other tag.
C8_BestEffortTags ==
  call.done =>
    call.out.tags = ExpectedIndexTags(call.index, call.index_tags)
                      \o ExpectedColumnTags(call.index, call.results, call.column_tags)

\* a row for which an index tag and a column tag were skipped and tags
\* listed after the skipped ones were still resolved
C8_Witness ==
  /\ call.done
  /\ Len(call.index_tags) = 2 /\ Len(call.column_tags) = 2
  /\ call.index_tags[1][2] > Len(call.index) /\ call.index_tags[2][2] <= Len(call.index)
  /\ ~ValidAt(call.results, call.column_tags[1][2], call.index)
  /\ ValidAt(call.results, call.column_tags[2][2], call.index)
  /\ Len(call.out.tags) = 2

----------------------------------------------------------------------------
(* Properties of report_raw_metrics (SpecReportRaw) *)

OidUniverse == SeqsUpTo({0, 1, 2, 10}, 3)

\* the integer components of a configured dotted OID
Components(dotted) == CHOOSE c \in OidUniverse : Join(c) = dotted

RawName(metric) == IF "name" \in metric.keys THEN metric.name ELSE "unnamed_metric"

\* C10: a sample of a RawOidSpec carries the value of a collected OID in the
\* subtree of the configured OID (the configured components are a prefix of
\* the collected components); nothing else is ever submitted for it.
C10_SubtreeOnly ==
  call.done =>
    \A i \in DOMAIN call.out.trace :
      IsSample(call.out.trace[i]) =>
        \E k \in DOMAIN call.metrics :
          /\ call.out.trace[i].name = <<"snmp", RawName(call.metrics[k])>>
          /\ \E j \in DOMAIN call.binds :
               /\ startswith(call.binds[j].oid, Components(call.metrics[k].OID))
               /\ call.binds[j].value = call.out.trace[i].src

====
